---- MODULE Spec2Model ----
(***************************************************************************)
(* chnroutes.py3.py: download the APNIC delegation file, extract the CN    *)
(* IPv4 allocations, convert each (start address, host count) to a         *)
(* (network, dotted mask, prefix length) route and render the routes into  *)
(* platform specific route scripts.                                        *)
(*                                                                         *)
(* Text is modelled as sequences of one-character strings, a line as the   *)
(* sequence of its '|'-separated fields, a document as the sequence of its *)
(* lines.  Python's unbounded integers are modelled, where they can exceed *)
(* 31 bits (the host count and the mask), as little-endian sequences of    *)
(* base-16 limbs.  time.time() readings are integral seconds.              *)
(***************************************************************************)
EXTENDS Integers, Sequences, FiniteSets, TLC

VARIABLES
    pc,             \* position of the single thread of control
    platform,       \* args.platform: <<>> is None, <<s>> is the string s
    gen,            \* the generate_* function that is running ("" if none)
    total_size,     \* fetch_ip_data.total_size: <<>> is None, <<n>> is n
    downloaded,     \* fetch_ip_data.downloaded
    history,        \* fetch_ip_data.history: deque of <<timestamp, bytes>>
    chunks,         \* fetch_ip_data.chunks: the length of each chunk read
    progress,       \* fetch_ip_data.progress, a fraction [num, den]
    speed_mb_s,     \* fetch_ip_data.speed_mb_s, a fraction [num, den]
    filled_length,  \* fetch_ip_data.filled_length
    current_time,   \* fetch_ip_data.current_time
    shown,          \* the [progress, speed] of every status line written
    data,           \* fetch_ip_data.data after decode: the document
    results,        \* the route list fetch_ip_data builds and returns
    files,          \* file name -> lines written, for every file opened
    exc,            \* the unhandled exception that ended the run ("" if none)
    exit_code,      \* the process exit status (-1 while running)
    err_msg         \* what was written to sys.stderr ("" if nothing)

vars == <<pc, platform, gen, total_size, downloaded, history, chunks, progress,
          speed_mb_s, filled_length, current_time, shown, data, results, files, exc, exit_code,
          err_msg>>

(***************************************************************************)
(* Bounds of the model.                                                    *)
(***************************************************************************)
MaxExp == 33          \* host counts 2^0 .. 2^MaxExp are tried
MaxSmallCount == 48   \* host counts 0 .. MaxSmallCount are tried
MaxLines == 3         \* lines of a document
MaxChunks == 3        \* chunks of a download in the progress specification
MaxRunChunks == 1     \* chunks of a download in the whole-run specification

(***************************************************************************)
(* Characters and strings.                                                 *)
(***************************************************************************)
UpperChars == <<"A","B","C","D","E","F","G","H","I","J","K","L","M",
                "N","O","P","Q","R","S","T","U","V","W","X","Y","Z">>
LowerChars == <<"a","b","c","d","e","f","g","h","i","j","k","l","m",
                "n","o","p","q","r","s","t","u","v","w","x","y","z">>
DigitChars == <<"0","1","2","3","4","5","6","7","8","9">>
HexChars == <<"0","1","2","3","4","5","6","7","8","9","a","b","c","d","e","f">>

Range(s) == {s[i] : i \in DOMAIN s}

IndexOf(s, c) == CHOOSE i \in DOMAIN s : s[i] = c

\* str.lower() of one character, and of a string
LowerChar(c) == IF c \in Range(UpperChars) THEN LowerChars[IndexOf(UpperChars, c)] ELSE c

Lower(s) == [i \in DOMAIN s |-> LowerChar(s[i])]

RECURSIVE Zeros(_)
Zeros(n) == IF n <= 0 THEN <<>> ELSE <<"0">> \o Zeros(n - 1)

Reverse(s) == [i \in DOMAIN s |-> s[Len(s) + 1 - i]]

(***************************************************************************)
(* Python integers beyond 31 bits: little-endian base-16 limbs, no high    *)
(* zero limb, <<>> is 0.  A signed value is [neg, mag].                    *)
(***************************************************************************)
RECURSIVE MulAdd(_, _, _)
MulAdd(b, m, c) ==
    IF b = <<>>
    THEN IF c = 0 THEN <<>> ELSE <<c % 16>> \o MulAdd(<<>>, m, c \div 16)
    ELSE LET v == b[1] * m + c
         IN  <<v % 16>> \o MulAdd(Tail(b), m, v \div 16)

RECURSIVE Strip(_)
Strip(b) == IF b # <<>> /\ b[Len(b)] = 0 THEN Strip(SubSeq(b, 1, Len(b) - 1)) ELSE b

\* int(s) of a string of decimal digits (line 186)
RECURSIVE IntOfDigits(_)
IntOfDigits(s) ==
    IF s = <<>> THEN <<>>
    ELSE MulAdd(IntOfDigits(SubSeq(s, 1, Len(s) - 1)), 10,
                IndexOf(DigitChars, s[Len(s)]) - 1)

RECURSIVE DecMag(_)
DecMag(b) == IF b[1] > 0 THEN <<b[1] - 1>> \o Tail(b) ELSE <<15>> \o DecMag(Tail(b))

RECURSIVE IncMag(_)
IncMag(b) ==
    IF b = <<>> THEN <<1>>
    ELSE IF b[1] < 15 THEN <<b[1] + 1>> \o Tail(b) ELSE <<0>> \o IncMag(Tail(b))

\* The decrement forgotten: the mask is taken from num_ip itself
MinusOneForgotten(b) == [neg |-> FALSE, mag |-> b]

\* num_ip - 1 (line 187): -1 when num_ip is 0
MinusOne(b) == IF b = <<>> THEN [neg |-> TRUE, mag |-> <<1>>]
               ELSE [neg |-> FALSE, mag |-> Strip(DecMag(b))]

\* 0xffffffff ^ x (line 187).  For x >= 0 the low eight limbs are
\* complemented and the higher ones kept; for x = -1 (all bits set) the result
\* is the complement of 0xffffffff, -(0xffffffff + 1).
XorMask(x) ==
    IF x.neg
    THEN [neg |-> TRUE, mag |-> IncMag(<<15, 15, 15, 15, 15, 15, 15, 15>>)]
    ELSE LET n == IF Len(x.mag) > 8 THEN Len(x.mag) ELSE 8
             limb(i) == IF i <= Len(x.mag) THEN x.mag[i] ELSE 0
         IN  [neg |-> FALSE,
              mag |-> Strip([i \in 1..n |-> IF i <= 8 THEN 15 - limb(i) ELSE limb(i)])]

\* hex(z)[2:] (line 188): hex() gives "0x.." or "-0x..", [2:] drops two characters
HexTail(z) ==
    LET digits == IF z.mag = <<>> THEN <<"0">>
                  ELSE [i \in 1..Len(z.mag) |-> HexChars[Reverse(z.mag)[i] + 1]]
        full == (IF z.neg THEN <<"-">> ELSE <<>>) \o <<"0", "x">> \o digits
    IN  SubSeq(full, 3, Len(full))

\* str.zfill(8) (line 189) of a string without a leading sign
Zfill8(s) == Zeros(8 - Len(s)) \o s

\* [imask[i:i+2] for i in range(0, 8, 2)] (line 190)
HexPairs(s) == [j \in 1..4 |-> SubSeq(s, 2 * j - 1, 2 * j)]

\* int(p, 16) of a two-character string is defined iff both are hex digits
IsHexPair(p) == \A i \in DOMAIN p : p[i] \in Range(HexChars)

HexPairValue(p) == 16 * (IndexOf(HexChars, p[1]) - 1) + (IndexOf(HexChars, p[2]) - 1)

\* int(math.log(num_ip, 2)) (line 193) for num_ip >= 1: the position of the
\* highest set bit.  (The double-precision quotient log(n)/log(2) truncates to
\* this value for every host count tried here, the exact powers of two included.)
TopBits(d) == IF d >= 8 THEN 4 ELSE IF d >= 4 THEN 3 ELSE IF d >= 2 THEN 2 ELSE 1

IntLog2(b) == 4 * (Len(b) - 1) + TopBits(b[Len(b)]) - 1

(***************************************************************************)
(* The Range Extractor: lines 179-196 of fetch_ip_data.                    *)
(***************************************************************************)
S_apnic == <<"a","p","n","i","c">>
S_cn == <<"c","n">>
S_ipv4 == <<"i","p","v","4">>

IsDigits(f) == f # <<>> /\ Range(f) \subseteq Range(DigitChars)

IsIpChars(f) == f # <<>> /\ Range(f) \subseteq (Range(DigitChars) \cup {"."})

\* cnregex (line 180, re.IGNORECASE) matched with its "apnic" ending field i of
\* the line: the pattern is not anchored, so field i may carry any text before
\* "apnic"; the five fields after it are matched whole; the last one only has
\* to start with "a", and ".*" takes the rest of the line, further fields
\* included.
MatchAt(line, i) ==
    /\ i >= 1 /\ i + 6 <= Len(line)
    /\ Len(line[i]) >= 5
    /\ Lower(SubSeq(line[i], Len(line[i]) - 4, Len(line[i]))) = S_apnic
    /\ Lower(line[i + 1]) = S_cn
    /\ Lower(line[i + 2]) = S_ipv4
    /\ IsIpChars(line[i + 3])
    /\ IsDigits(line[i + 4])
    /\ IsDigits(line[i + 5])
    /\ line[i + 6] # <<>> /\ LowerChar(line[i + 6][1]) = "a"

LineMatches(line) == \E i \in DOMAIN line : MatchAt(line, i)

\* The text one match covers, split at '|' (line 184): the leftmost match of
\* the line, from its "apnic" to the end of the line.
SplitItem(line) ==
    LET i == CHOOSE k \in DOMAIN line :
                 MatchAt(line, k) /\ \A m \in 1..(k - 1) : ~MatchAt(line, m)
    IN  <<SubSeq(line[i], Len(line[i]) - 4, Len(line[i]))>> \o SubSeq(line, i + 1, Len(line))

\* Matches collected without repetition: a match equal to a later one is dropped
RECURSIVE FindAllUnique(_)
FindAllUnique(doc) ==
    IF doc = <<>> THEN <<>>
    ELSE (IF /\ LineMatches(Head(doc))
             /\ \A i \in DOMAIN Tail(doc) :
                    ~(LineMatches(Tail(doc)[i]) /\ SplitItem(Tail(doc)[i]) = SplitItem(Head(doc)))
          THEN <<SplitItem(Head(doc))>> ELSE <<>>)
         \o FindAllUnique(Tail(doc))

\* cnregex.findall(data) (line 181): the matches in document order, at most one
\* per line because ".*" runs to the end of the line; each already split.
RECURSIVE FindAll(_)
FindAll(doc) ==
    IF doc = <<>> THEN <<>>
    ELSE (IF LineMatches(Head(doc)) THEN <<SplitItem(Head(doc))>> ELSE <<>>)
         \o FindAll(Tail(doc))

\* imask after line 189, as a string of eight (or more) characters
MaskHex(unit_items) == Zfill8(HexTail(XorMask(MinusOne(IntOfDigits(unit_items[5])))))

\* Lines 186-193 raise ValueError: int(i, 16) on a slice that is not
\* hexadecimal (line 191), or math.log of 0 (line 193).
RouteRaises(unit_items) ==
    \/ \E j \in 1..4 : ~IsHexPair(HexPairs(MaskHex(unit_items))[j])
    \/ IntOfDigits(unit_items[5]) = <<>>

\* (starting_ip, mask, mask2) of line 194; the dotted mask "a.b.c.d" is the
\* sequence of its four octets.
Route(unit_items) ==
    <<unit_items[4],
      [j \in 1..4 |-> HexPairValue(HexPairs(MaskHex(unit_items))[j])],
      32 - IntLog2(IntOfDigits(unit_items[5]))>>

\* The loop of lines 183-194 over the matches
ParseRoutes(doc) ==
    LET cndata == FindAll(doc)
    IN  IF \E j \in DOMAIN cndata : RouteRaises(cndata[j])
        THEN [raised |-> TRUE, routes |-> <<>>]
        ELSE [raised |-> FALSE, routes |-> [j \in DOMAIN cndata |-> Route(cndata[j])]]

\* Lines 179-196: parse the decoded document and return the routes to the
\* generator, or let the ValueError end the run.
FetchParse ==
    /\ pc = "decoded"
    /\ LET r == ParseRoutes(data)
       IN  IF r.raised
           THEN /\ pc' = "exit"
                /\ exc' = "ValueError"
                /\ exit_code' = 1
                /\ results' = results
           ELSE /\ pc' = "parsed"
                /\ results' = r.routes
                /\ UNCHANGED <<exc, exit_code>>
    /\ UNCHANGED <<platform, gen, total_size, downloaded, history, chunks, progress,
                   speed_mb_s, filled_length, current_time, shown, data, files,
                   err_msg>>

(***************************************************************************)
(* Input documents.                                                        *)
(***************************************************************************)
\* a matching line: apnic|CN|ipv4|1.0.1.0|256|20110414|allocated
L_alloc256 ==
    <<<<"a","p","n","i","c">>, <<"C","N">>, <<"i","p","v","4">>, <<"1",".","0",".","1",".","0">>, <<"2","5","6">>, <<"2","0","1","1","0","4","1","4">>, <<"a","l","l","o","c","a","t","e","d">>>>

\* a matching line, status assigned: apnic|CN|ipv4|1.0.2.0|512|20110414|assigned
L_assigned512 ==
    <<<<"a","p","n","i","c">>, <<"C","N">>, <<"i","p","v","4">>, <<"1",".","0",".","2",".","0">>, <<"5","1","2">>, <<"2","0","1","1","0","4","1","4">>, <<"a","s","s","i","g","n","e","d">>>>

\* a matching line in other letter case: APNIC|cn|IPV4|1.0.8.0|2048|20110412|Allocated
L_upper2048 ==
    <<<<"A","P","N","I","C">>, <<"c","n">>, <<"I","P","V","4">>, <<"1",".","0",".","8",".","0">>, <<"2","0","4","8">>, <<"2","0","1","1","0","4","1","2">>, <<"A","l","l","o","c","a","t","e","d">>>>

\* a line the pattern matches from the middle: 2|ripeapnic|cn|ipv4|1.0.4.0|1024|20110414|allocated
L_midline1024 ==
    <<<<"2">>, <<"r","i","p","e","a","p","n","i","c">>, <<"c","n">>, <<"i","p","v","4">>, <<"1",".","0",".","4",".","0">>, <<"1","0","2","4">>, <<"2","0","1","1","0","4","1","4">>, <<"a","l","l","o","c","a","t","e","d">>>>

\* a matching line with an eighth field: apnic|CN|ipv4|1.0.16.0|4096|20110412|allocated|ext
L_eight4096 ==
    <<<<"a","p","n","i","c">>, <<"C","N">>, <<"i","p","v","4">>, <<"1",".","0",".","1","6",".","0">>, <<"4","0","9","6">>, <<"2","0","1","1","0","4","1","2">>, <<"a","l","l","o","c","a","t","e","d">>, <<"e","x","t">>>>

\* a matching line whose host count is no power of two: apnic|CN|ipv4|1.2.0.0|768|20110414|allocated
L_odd768 ==
    <<<<"a","p","n","i","c">>, <<"C","N">>, <<"i","p","v","4">>, <<"1",".","2",".","0",".","0">>, <<"7","6","8">>, <<"2","0","1","1","0","4","1","4">>, <<"a","l","l","o","c","a","t","e","d">>>>

\* a matching line whose host count is 0: apnic|CN|ipv4|1.3.0.0|0|20110414|allocated
L_zero ==
    <<<<"a","p","n","i","c">>, <<"C","N">>, <<"i","p","v","4">>, <<"1",".","3",".","0",".","0">>, <<"0">>, <<"2","0","1","1","0","4","1","4">>, <<"a","l","l","o","c","a","t","e","d">>>>

\* another country: no match: apnic|JP|ipv4|1.0.64.0|8192|20110412|allocated
L_jp ==
    <<<<"a","p","n","i","c">>, <<"J","P">>, <<"i","p","v","4">>, <<"1",".","0",".","6","4",".","0">>, <<"8","1","9","2">>, <<"2","0","1","1","0","4","1","2">>, <<"a","l","l","o","c","a","t","e","d">>>>

\* another record type: no match: apnic|CN|asn|4608|1|20110412|allocated
L_asn ==
    <<<<"a","p","n","i","c">>, <<"C","N">>, <<"a","s","n">>, <<"4","6","0","8">>, <<"1">>, <<"2","0","1","1","0","4","1","2">>, <<"a","l","l","o","c","a","t","e","d">>>>

\* a status that does not start with a: no match: apnic|CN|ipv4|1.4.0.0|256|20110412|reserved
L_reserved ==
    <<<<"a","p","n","i","c">>, <<"C","N">>, <<"i","p","v","4">>, <<"1",".","4",".","0",".","0">>, <<"2","5","6">>, <<"2","0","1","1","0","4","1","2">>, <<"r","e","s","e","r","v","e","d">>>>

\* the matching prefix with only five fields: apnic|CN|ipv4|1.5.0.0|256
L_five ==
    <<<<"a","p","n","i","c">>, <<"C","N">>, <<"i","p","v","4">>, <<"1",".","5",".","0",".","0">>, <<"2","5","6">>>>

Catalogue == {L_alloc256, L_assigned512, L_upper2048, L_midline1024, L_eight4096, L_odd768, L_zero, L_jp, L_asn, L_reserved, L_five}

\* Every document of at most MaxLines catalogue lines
Docs == UNION {[1..n -> Catalogue] : n \in 0..MaxLines}

\* Decimal strings of the host counts tried by the mask specification
RECURSIVE DoubleLE(_, _)
DoubleLE(d, c) ==
    IF d = <<>> THEN (IF c = 0 THEN <<>> ELSE <<c>>)
    ELSE <<(2 * d[1] + c) % 10>> \o DoubleLE(Tail(d), (2 * d[1] + c) \div 10)

RECURSIVE Pow2LE(_)
Pow2LE(k) == IF k = 0 THEN <<1>> ELSE DoubleLE(Pow2LE(k - 1), 0)

\* the decimal string of 2^k, by doubling in base ten
Pow2Dec(k) == [i \in 1..Len(Pow2LE(k)) |-> DigitChars[Reverse(Pow2LE(k))[i] + 1]]

RECURSIVE DecStr(_)
DecStr(n) == IF n < 10 THEN <<DigitChars[n + 1]>>
             ELSE DecStr(n \div 10) \o <<DigitChars[(n % 10) + 1]>>

MaskCounts == {Pow2Dec(k) : k \in 0..MaxExp} \cup {DecStr(n) : n \in 0..MaxSmallCount}

\* a matching line that carries the host count c
MaskLine(c) == <<S_apnic, <<"C","N">>, S_ipv4, <<"1",".","0",".","0",".","0">>, c,
                 <<"2","0","1","1","0","4","1","4">>, <<"a","l","l","o","c","a","t","e","d">>>>

\* The state in which the decoded document is handed to the parsing code;
\* the download that produced it is not part of these specifications.
AtDecoded(doc) ==
    /\ pc = "decoded"
    /\ platform = <<<<"o","p","e","n","v","p","n">>>>
    /\ gen = "ovpn"
    /\ total_size = <<>>
    /\ downloaded = 0
    /\ history = <<>>
    /\ chunks = <<>>
    /\ progress = [num |-> 0, den |-> 1]
    /\ speed_mb_s = [num |-> 0, den |-> 1]
    /\ filled_length = 0
    /\ current_time = 0
    /\ shown = <<>>
    /\ data = doc
    /\ results = <<>>
    /\ files = [n \in {} |-> <<>>]
    /\ exc = ""
    /\ exit_code = -1
    /\ err_msg = ""

InitMask == \E c \in MaskCounts : AtDecoded(<<MaskLine(c)>>)

InitExtract == \E doc \in Docs : AtDecoded(doc)

NextExtract == FetchParse

\* the mask computation on single allocation records
SpecMask == InitMask /\ [][NextExtract]_vars

\* the extractor on documents
SpecExtract == InitExtract /\ [][NextExtract]_vars

(***************************************************************************)
(* Properties of the Range Extractor.                                      *)
(***************************************************************************)
\* The dotted mask of prefix length p: p one-bits, then zero-bits, as octets
PrefixOctets(p) ==
    [j \in 1..4 |-> IF p >= 8 * j THEN 255
                    ELSE IF p <= 8 * (j - 1) THEN 0
                    ELSE 256 - 2 ^ (8 * j - p)]

\* The indices of the document's lines that the filter matches
MatchingLines == {i \in DOMAIN data : LineMatches(data[i])}

\* C1: for every matched record whose host count is 2^k, 0 <= k <= 32, the
\* route returned has prefix length 32 - k and a dotted mask whose octets are
\* those of 0xFFFFFFFF XOR (2^k - 1), i.e. 32 - k one-bits followed by k
\* zero-bits (1024 gives 255.255.252.0 and 22).
C1_PowerOfTwoMask ==
    pc \in {"parsed", "exit"} =>
        \A i \in MatchingLines : \A k \in 0..32 :
            SplitItem(data[i])[5] = Pow2Dec(k) =>
                /\ pc = "parsed"
                /\ Cardinality({m \in MatchingLines : m <= i}) \in DOMAIN results
                /\ LET r == results[Cardinality({m \in MatchingLines : m <= i})]
                   IN  r[2] = PrefixOctets(32 - k) /\ r[3] = 32 - k

C1_Witness ==
    /\ pc = "parsed"
    /\ SplitItem(data[1])[5] = Pow2Dec(10)
    /\ results[1][2] = <<255, 255, 252, 0>>
    /\ results[1][3] = 22

\* C5 (as claimed): for every emitted route, whatever the host count, the
\* dotted mask is the 32-bit value with prefixLength leading one-bits.
C5_MaskAgreesWithPrefix ==
    pc = "parsed" =>
        \A j \in DOMAIN results :
            /\ results[j][3] \in 0..32
            /\ results[j][2] = PrefixOctets(results[j][3])

\* C2 (as claimed): once the extractor has run on a document with N matching
\* lines it has returned exactly N routes, the j-th of them made from the
\* j-th matching line.
C2_OneRoutePerMatch ==
    pc \in {"parsed", "exit"} =>
        /\ pc = "parsed"
        /\ Len(results) = Cardinality(MatchingLines)
        /\ \A i \in MatchingLines :
               results[Cardinality({m \in MatchingLines : m <= i})][1]
                   = SplitItem(data[i])[4]

\* C2 (amended): whenever the extractor returns, it returns exactly N routes
\* for the N matching lines, the j-th route made from the j-th matching line
\* (its address, and the mask and prefix length of its host count): nothing is
\* sorted, dropped or merged.  It returns unless a matching line carries the
\* host count 0, in which case it raises ValueError.
C2_OneRoutePerMatchWhenReturned ==
    /\ pc = "parsed" =>
        /\ Len(results) = Cardinality(MatchingLines)
        /\ \A i \in MatchingLines :
               results[Cardinality({m \in MatchingLines : m <= i})]
                   = Route(SplitItem(data[i]))
    /\ pc = "exit" =>
        \E i \in MatchingLines : IntOfDigits(SplitItem(data[i])[5]) = <<>>
    /\ pc = "parsed" =>
        \A i \in MatchingLines : IntOfDigits(SplitItem(data[i])[5]) # <<>>

\* 1.0.2.0/23, a line of another country, then the adjacent and lower
\* 1.0.1.0/24: two routes, in document order, neither sorted nor merged
C2_Witness ==
    /\ pc = "parsed"
    /\ data = <<L_assigned512, L_jp, L_alloc256>>
    /\ Len(results) = 2
    /\ results[1] = <<L_assigned512[4], <<255, 255, 254, 0>>, 23>>
    /\ results[2] = <<L_alloc256[4], <<255, 255, 255, 0>>, 24>>

\* C3 (as claimed): a line that starts with the matching prefix
\* apnic|cn|ipv4 but does not have exactly seven fields makes the extractor
\* end with an error.
C3_MalformedLineIsAnError ==
    pc \in {"parsed", "exit"} =>
        \A i \in DOMAIN data :
            (/\ Len(data[i]) >= 3
             /\ Lower(data[i][1]) = S_apnic
             /\ Lower(data[i][2]) = S_cn
             /\ Lower(data[i][3]) = S_ipv4
             /\ Len(data[i]) # 7)
                => exc # ""

(***************************************************************************)
(* The download loop and its Progress Reporter: lines 131-178.             *)
(***************************************************************************)
block_size == 8192
bar_width == 50
WindowSeconds == 10
BytesPerMB == 1048576

\* What response.getheader('Content-Length') may return: None (<<>>) or a string
Headers == {<<>>, <<<<>>>>, <<<<"0">>>>, <<<<"1","0","0","0">>>>}

\* Sizes of the chunks response.read(block_size) may return, and the readings
\* time.time() may give.  time.time() is the wall clock: a later call can
\* return a lower value when the system clock is set back, so each reading is
\* drawn freely.
ChunkSizes == {100, 200, 300}
Times == {0, 1, 2, 10, 11, 13}
RunChunkSizes == {300, block_size}
RunTimes == {0, 1}

\* int(s) of a short string of decimal digits (line 135)
RECURSIVE SmallInt(_)
SmallInt(s) ==
    IF s = <<>> THEN 0
    ELSE 10 * SmallInt(SubSeq(s, 1, Len(s) - 1)) + (IndexOf(DigitChars, s[Len(s)]) - 1)

\* Line 135: total_size = int(total_size) if total_size else None
TotalSize(h) == IF h = <<>> \/ h[1] = <<>> THEN <<>> ELSE <<SmallInt(h[1])>>

\* "if total_size" (lines 165, 167): neither None nor 0
TotalKnown(ts) == ts # <<>> /\ ts[1] # 0

\* Lines 155-156: drop samples from the left while the leftmost one is more
\* than ten seconds older than the current reading
RECURSIVE Evict(_, _)
Evict(h, t) ==
    IF h # <<>> /\ (t - h[1][1]) > WindowSeconds THEN Evict(Tail(h), t) ELSE h

\* The guard without its test of the elapsed time
SpeedGuardNonEmpty(h, t) == h # <<>>

\* Line 158: the guard of the speed computation
SpeedGuard(h, t) == h # <<>> /\ (t - h[1][1]) > 0

\* Lines 158-164: speed_mb_s, as the fraction bytes_diff / (time_diff * 2^20)
Speed(h, t, d) ==
    IF SpeedGuard(h, t)
    THEN [num |-> d - h[1][2], den |-> (t - h[1][1]) * BytesPerMB]
    ELSE [num |-> 0, den |-> 1]

\* The percentage with the quotient truncated before it is scaled
ProgressTruncated(d, ts) ==
    IF TotalKnown(ts) THEN [num |-> (d \div ts[1]) * 100, den |-> 1] ELSE [num |-> 0, den |-> 1]

\* Line 165: progress, as the fraction downloaded * 100 / total_size
Progress(d, ts) ==
    IF TotalKnown(ts) THEN [num |-> d * 100, den |-> ts[1]] ELSE [num |-> 0, den |-> 1]

\* Line 167: filled_length
FilledLength(d, ts) == IF TotalKnown(ts) THEN (bar_width * d) \div ts[1] ELSE 0

\* Lines 131-144: open the URL, read the Content-Length header, set up the loop
FetchOpen ==
    /\ pc = "fetch"
    /\ \E h \in Headers : total_size' = TotalSize(h)
    /\ downloaded' = 0
    /\ history' = <<>>
    /\ chunks' = <<>>
    /\ shown' = <<[progress |-> [num |-> 0, den |-> 1], speed |-> [num |-> 0, den |-> 1]]>>
    /\ pc' = "read"
    /\ UNCHANGED <<platform, gen, progress, speed_mb_s, filled_length, current_time,
                   data, results, files, exc, exit_code, err_msg>>

\* Line 133 raising: urlopen fails (DNS, refused connection, HTTP error status)
FetchOpenFails ==
    /\ pc = "fetch"
    /\ pc' = "exit"
    /\ exc' = "URLError"
    /\ exit_code' = 1
    /\ UNCHANGED <<platform, gen, total_size, downloaded, history, chunks, progress,
                   speed_mb_s, filled_length, current_time, shown, data, results,
                   files, err_msg>>

\* Lines 146-176: one iteration of the loop that receives a non-empty chunk of
\* n bytes with time.time() reading t.  A division by a zero time_diff would
\* end the run with ZeroDivisionError.
FetchRead(sizes, times, limit) ==
    /\ pc = "read"
    /\ Len(chunks) < limit
    /\ \E n \in sizes, t \in times :
         LET d == downloaded + n
             h == Evict(Append(history, <<t, d>>), t)
             sp == Speed(h, t, d)
         IN  /\ n >= 1 /\ n <= block_size
             /\ chunks' = Append(chunks, n)
             /\ downloaded' = d
             /\ current_time' = t
             /\ history' = h
             /\ IF sp.den = 0
                THEN /\ pc' = "exit"
                     /\ exc' = "ZeroDivisionError"
                     /\ exit_code' = 1
                     /\ UNCHANGED <<progress, speed_mb_s, filled_length, shown>>
                ELSE /\ speed_mb_s' = sp
                     /\ progress' = Progress(d, total_size)
                     /\ filled_length' = FilledLength(d, total_size)
                     /\ shown' = Append(shown, [progress |-> Progress(d, total_size),
                                                speed |-> sp])
                     /\ UNCHANGED <<pc, exc, exit_code>>
    /\ UNCHANGED <<platform, gen, total_size, data, results, files, err_msg>>

\* Line 147 raising: the connection drops or times out during a read
FetchReadFails ==
    /\ pc = "read"
    /\ pc' = "exit"
    /\ exc' = "ConnectionError"
    /\ exit_code' = 1
    /\ UNCHANGED <<platform, gen, total_size, downloaded, history, chunks, progress,
                   speed_mb_s, filled_length, current_time, shown, data, results,
                   files, err_msg>>

\* Lines 148-149 and 177-179: the empty chunk ends the loop, the chunks are
\* joined and decoded.  The bytes received are modelled by their number only,
\* so the text they decode to is drawn from docs (no bytes: no text).
FetchEnd(docs) ==
    /\ pc = "read"
    /\ \E doc \in (IF chunks = <<>> THEN {<<>>} ELSE docs) : data' = doc
    /\ pc' = "decoded"
    /\ UNCHANGED <<platform, gen, total_size, downloaded, history, chunks, progress,
                   speed_mb_s, filled_length, current_time, shown, results, files,
                   exc, exit_code, err_msg>>

\* Line 179 raising: the bytes received are not UTF-8
FetchDecodeFails ==
    /\ pc = "read"
    /\ chunks # <<>>
    /\ pc' = "exit"
    /\ exc' = "UnicodeDecodeError"
    /\ exit_code' = 1
    /\ UNCHANGED <<platform, gen, total_size, downloaded, history, chunks, progress,
                   speed_mb_s, filled_length, current_time, shown, data, results,
                   files, err_msg>>

\* The state at the call of fetch_ip_data
AtFetch(p, g) ==
    /\ pc = "fetch"
    /\ platform = p
    /\ gen = g
    /\ total_size = <<>>
    /\ downloaded = 0
    /\ history = <<>>
    /\ chunks = <<>>
    /\ progress = [num |-> 0, den |-> 1]
    /\ speed_mb_s = [num |-> 0, den |-> 1]
    /\ filled_length = 0
    /\ current_time = 0
    /\ shown = <<>>
    /\ data = <<>>
    /\ results = <<>>
    /\ files = [n \in {} |-> <<>>]
    /\ exc = ""
    /\ exit_code = -1
    /\ err_msg = ""

InitProgress == AtFetch(<<<<"o","p","e","n","v","p","n">>>>, "ovpn")

NextProgress ==
    \/ FetchOpen
    \/ FetchRead(ChunkSizes, Times, MaxChunks)

\* the download loop alone
SpecProgress == InitProgress /\ [][NextProgress]_vars

(***************************************************************************)
(* Properties of the Progress Reporter.                                    *)
(***************************************************************************)
\* The bytes received with the first i chunks
RECURSIVE BytesUpTo(_, _)
BytesUpTo(cs, i) == IF i = 0 THEN 0 ELSE BytesUpTo(cs, i - 1) + cs[i]

\* a <= b for fractions with positive denominators
FracLeq(a, b) == a.num * b.den <= b.num * a.den

\* C6: when total_size is known, the percentage reported after the i-th chunk
\* is (bytes received with the first i chunks) / total_size * 100, and the
\* percentages reported one after the other never decrease.
C6_PercentComplete ==
    (pc = "read" /\ TotalKnown(total_size)) =>
        /\ Len(shown) = Len(chunks) + 1
        /\ \A i \in 1..Len(chunks) :
               /\ shown[i + 1].progress.den > 0
               /\ shown[i + 1].progress.num * total_size[1]
                      = BytesUpTo(chunks, i) * 100 * shown[i + 1].progress.den
               /\ FracLeq(shown[i].progress, shown[i + 1].progress)
        /\ chunks # <<>> => progress = shown[Len(shown)].progress

\* chunks of 100, 200 and 300 bytes at times 0, 1, 2 of a 1000 byte transfer:
\* 10, 30 and 60 per cent
C6_Witness ==
    /\ pc = "read"
    /\ total_size = <<1000>>
    /\ chunks = <<100, 200, 300>>
    /\ history = <<<<0, 100>>, <<1, 300>>, <<2, 600>>>>
    /\ shown[2].progress.num = 10 * shown[2].progress.den
    /\ shown[3].progress.num = 30 * shown[3].progress.den
    /\ shown[4].progress.num = 60 * shown[4].progress.den
    /\ progress.num = 60 * progress.den

\* C7: every speed reported is a finite, non-negative value (a fraction with
\* a positive denominator and a non-negative numerator), it is 0 whenever
\* the newest sample and the oldest sample left in the window carry the same
\* timestamp, and no division by zero ends the run.
C7_SpeedFiniteNonNegative ==
    /\ exc # "ZeroDivisionError"
    /\ \A i \in DOMAIN shown : shown[i].speed.den > 0 /\ shown[i].speed.num >= 0
    /\ (pc = "read" /\ chunks # <<>>) =>
           /\ speed_mb_s = shown[Len(shown)].speed
           /\ history # <<>>
           /\ (history[Len(history)][1] - history[1][1] = 0) => speed_mb_s.num = 0

\* two chunks in the same instant: two samples in the window, elapsed time 0
C7_Witness ==
    /\ pc = "read"
    /\ Len(chunks) = 2
    /\ Len(history) = 2
    /\ history[1][1] = history[2][1]
    /\ history[1][2] < history[2][2]
    /\ speed_mb_s = [num |-> 0, den |-> 1]

\* C9 (as claimed): after each chunk the window is non-empty, ends with the
\* sample just appended, holds non-decreasing byte counts, and holds no
\* sample more than ten seconds older than the newest one.
C9_WindowWithinTenSeconds ==
    (pc = "read" /\ chunks # <<>>) =>
        /\ history # <<>>
        /\ history[Len(history)] = <<current_time, downloaded>>
        /\ \A i, j \in DOMAIN history : i <= j => history[i][2] <= history[j][2]
        /\ \A i \in DOMAIN history : current_time - history[i][1] <= WindowSeconds

(***************************************************************************)
(* The generators (lines 15-128) and the command line (lines 198-228).     *)
(***************************************************************************)
DefaultMetric == 5

S_openvpn == <<"o","p","e","n","v","p","n">>
S_linux == <<"l","i","n","u","x">>
S_mac == <<"m","a","c">>
S_android == <<"a","n","d","r","o","i","d">>
S_win == <<"w","i","n">>

\* Values of args.platform: None (-p given without a value) or a string
Platforms == {<<>>, <<S_openvpn>>, <<<<"O","p","e","n","V","P","N">>>>, <<S_linux>>, <<<<"L","i","n","u","x">>>>, <<S_mac>>,
              <<S_android>>, <<S_win>>, <<<<"W","I","N">>>>, <<<<"b","s","d">>>>, <<<<>>>>}

\* The documents the whole-run specification downloads
RunDocs == {<<>>, <<L_assigned512, L_jp, L_alloc256>>, <<L_alloc256, L_zero>>, <<L_five>>}

\* The files each generator opens (lines 18, 50, 93, 121)
UpName(g) ==
    CASE g = "ovpn" -> "routes.txt"
      [] g = "linux" -> "ip-pre-up.sh"
      [] g = "mac" -> "ip-up"
      [] g = "android" -> "vpnup.sh"

DownNames(g) ==
    CASE g = "ovpn" -> {}
      [] g = "linux" -> {"ip-down.sh"}
      [] g = "mac" -> {"ip-down"}
      [] g = "android" -> {"vpndown.sh"}

\* What is written before the loop (lines 51-52, 94-95, 122-123)
HeaderLines(g, name) ==
    IF g = "ovpn" THEN <<>>
    ELSE <<[kind |-> "header",
            text |-> IF name = UpName(g) THEN "upscript_header" ELSE "downscript_header"]>>

\* The line one route adds to the up file (lines 20, 54, 97, 125); the tuple is
\* unpacked as (ip, mask, _) by openvpn and android, as (ip, _, mask) by linux
\* and mac.
UpLine(g, r) ==
    CASE g = "ovpn" ->
           [kind |-> "route", cmd |-> "route", net |-> r[1], mask |-> r[2],
            tail |-> "net_gateway", metric |-> DefaultMetric]
      [] g = "linux" ->
           [kind |-> "route", cmd |-> "ip route add", net |-> r[1], mask |-> r[3],
            tail |-> "via $OLDGW"]
      [] g = "mac" ->
           [kind |-> "route", cmd |-> "route add", net |-> r[1], mask |-> r[3],
            tail |-> "\"${OLDGW}\""]
      [] g = "android" ->
           [kind |-> "route", cmd |-> "route add -net", net |-> r[1], mask |-> r[2],
            tail |-> "gw $OLDGW"]

\* The line one route adds to the down file (lines 55, 98, 126)
DownLine(g, r) ==
    CASE g = "linux" ->
           [kind |-> "route", cmd |-> "ip route del", net |-> r[1], mask |-> r[3],
            tail |-> ""]
      [] g = "mac" ->
           [kind |-> "route", cmd |-> "route delete", net |-> r[1], mask |-> r[3],
            tail |-> "$OLDGW"]
      [] g = "android" ->
           [kind |-> "route", cmd |-> "route del -net", net |-> r[1], mask |-> r[2],
            tail |-> ""]

\* A down write that left the loop body: only the last route is deleted
DownWritesAfterLoop(g, i) ==
    IF i = Len(results) THEN <<DownLine(g, results[i])>> ELSE <<>>

\* What iteration i of the loop writes to the down file
DownWrites(g, i) == <<DownLine(g, results[i])>>

\* What is written after the loop (lines 56, 99)
TrailerLines(g) ==
    CASE g = "linux" -> <<[kind |-> "trailer", text |-> "rm /tmp/vpn_oldgw"]>>
      [] g = "mac" -> <<[kind |-> "trailer", text |-> "rm /tmp/pptp_oldgw"]>>
      [] OTHER -> <<>>

IsRouteLine(l) == l.kind = "route"

\* The per-route lines of an opened file
PerRoute(name) == SelectSeq(files[name], IsRouteLine)

\* A dispatch that opens the generator's files before the data is fetched
MainOpensFirst ==
    /\ pc = "main"
    /\ platform # <<>>
    /\ Lower(platform[1]) \in {S_openvpn, S_linux, S_mac, S_android}
    /\ LET g == CASE Lower(platform[1]) = S_openvpn -> "ovpn"
                  [] Lower(platform[1]) = S_linux -> "linux"
                  [] Lower(platform[1]) = S_mac -> "mac"
                  [] Lower(platform[1]) = S_android -> "android"
       IN  /\ gen' = g
           /\ files' = [n \in {UpName(g)} \cup DownNames(g) |-> HeaderLines(g, n)]
    /\ pc' = "fetch"
    /\ UNCHANGED <<platform, total_size, downloaded, history, chunks, progress,
                   speed_mb_s, filled_length, current_time, shown, data, results,
                   exc, exit_code, err_msg>>

\* Lines 213-226: lower-case the selector and call the generator.  None has
\* no lower() (AttributeError); generate_win is not defined (NameError); any
\* other value is reported on stderr and the run exits with status 1.
Main ==
    /\ pc = "main"
    /\ IF platform = <<>>
       THEN /\ pc' = "exit" /\ exc' = "AttributeError" /\ exit_code' = 1
            /\ UNCHANGED <<gen, err_msg>>
       ELSE LET p == Lower(platform[1])
            IN  IF p \in {S_openvpn, S_linux, S_mac, S_android}
                THEN /\ gen' = (CASE p = S_openvpn -> "ovpn"
                                  [] p = S_linux -> "linux"
                                  [] p = S_mac -> "mac"
                                  [] p = S_android -> "android")
                     /\ pc' = "fetch"
                     /\ UNCHANGED <<exc, exit_code, err_msg>>
                ELSE IF p = S_win
                THEN /\ pc' = "exit" /\ exc' = "NameError" /\ exit_code' = 1
                     /\ UNCHANGED <<gen, err_msg>>
                ELSE /\ pc' = "exit" /\ exit_code' = 1
                     /\ err_msg' = "Platform {} is not supported."
                     /\ UNCHANGED <<gen, exc>>
    /\ UNCHANGED <<platform, total_size, downloaded, history, chunks, progress,
                   speed_mb_s, filled_length, current_time, shown, data, results,
                   files>>

\* Lines 18, 50-52, 93-95, 121-123: fetch_ip_data has returned; open the files
\* (creating or truncating them) and write the headers.
GenOpen ==
    /\ pc = "parsed"
    /\ files' = [n \in {UpName(gen)} \cup DownNames(gen) |-> HeaderLines(gen, n)]
    /\ pc' = "write"
    /\ UNCHANGED <<platform, gen, total_size, downloaded, history, chunks, progress,
                   speed_mb_s, filled_length, current_time, shown, data, results,
                   exc, exit_code, err_msg>>

\* Lines 19-21, 53-55, 96-98, 124-126: one iteration of the loop over results
GenWrite ==
    /\ pc = "write"
    /\ Len(PerRoute(UpName(gen))) < Len(results)
    /\ LET i == Len(PerRoute(UpName(gen))) + 1
       IN  files' = [n \in DOMAIN files |->
                        IF n = UpName(gen)
                        THEN Append(files[n], UpLine(gen, results[i]))
                        ELSE files[n] \o DownWrites(gen, i)]
    /\ UNCHANGED <<pc, platform, gen, total_size, downloaded, history, chunks,
                   progress, speed_mb_s, filled_length, current_time, shown, data,
                   results, exc, exit_code, err_msg>>

\* Lines 56, 99, the end of the with block, the usage text and line 228: the
\* trailer is written, the files are closed and the script finishes.
GenClose ==
    /\ pc = "write"
    /\ Len(PerRoute(UpName(gen))) = Len(results)
    /\ files' = [n \in DOMAIN files |->
                    IF n \in DownNames(gen) THEN files[n] \o TrailerLines(gen)
                    ELSE files[n]]
    /\ pc' = "exit"
    /\ exit_code' = 0
    /\ UNCHANGED <<platform, gen, total_size, downloaded, history, chunks, progress,
                   speed_mb_s, filled_length, current_time, shown, data, results,
                   exc, err_msg>>

Init ==
    /\ pc = "main"
    /\ platform \in Platforms
    /\ gen = ""
    /\ total_size = <<>>
    /\ downloaded = 0
    /\ history = <<>>
    /\ chunks = <<>>
    /\ progress = [num |-> 0, den |-> 1]
    /\ speed_mb_s = [num |-> 0, den |-> 1]
    /\ filled_length = 0
    /\ current_time = 0
    /\ shown = <<>>
    /\ data = <<>>
    /\ results = <<>>
    /\ files = [n \in {} |-> <<>>]
    /\ exc = ""
    /\ exit_code = -1
    /\ err_msg = ""

Next ==
    \/ Main
    \/ FetchOpen
    \/ FetchOpenFails
    \/ FetchRead(RunChunkSizes, RunTimes, MaxRunChunks)
    \/ FetchReadFails
    \/ FetchEnd(RunDocs)
    \/ FetchDecodeFails
    \/ FetchParse
    \/ GenOpen
    \/ GenWrite
    \/ GenClose

\* one run of the script
Spec == Init /\ [][Next]_vars

(***************************************************************************)
(* Properties of a run.                                                    *)
(***************************************************************************)
\* C4 (as claimed): a selector other than openvpn, linux, mac, android
\* (case-insensitively), "win" included, ends the run with the 'not supported'
\* message and exit status 1, without an unhandled exception, a download or
\* an artifact file.
C4_UnsupportedPlatformReported ==
    (/\ pc = "exit"
     /\ platform # <<>>
     /\ Lower(platform[1]) \notin {S_openvpn, S_linux, S_mac, S_android})
        => /\ err_msg = "Platform {} is not supported."
           /\ exit_code = 1
           /\ exc = ""
           /\ shown = <<>> /\ chunks = <<>>
           /\ DOMAIN files = {}

\* C8: a file is open or written only once the download and the parsing have
\* completed and returned the full route list, and a run that an exception
\* ended (in the download, the decoding or the parsing) has opened no file.
C8_ArtifactsOnlyAfterRoutes ==
    /\ DOMAIN files # {} =>
           /\ pc \in {"write", "exit"}
           /\ exc = ""
           /\ ~ParseRoutes(data).raised
           /\ results = ParseRoutes(data).routes
    /\ exc # "" => (pc = "exit" /\ exit_code = 1 /\ DOMAIN files = {})

\* the parsing fails after a complete download: no file
C8_Witness ==
    /\ pc = "exit"
    /\ gen = "linux"
    /\ chunks # <<>>
    /\ data = <<L_alloc256, L_zero>>
    /\ exc = "ValueError"
    /\ DOMAIN files = {}

\* C10: for linux, mac and android the i-th per-route line of the up file
\* adds, and the i-th per-route line of the down file deletes, the network
\* and mask/prefix of the i-th route; when the run has finished both files
\* carry as many per-route lines as there are routes.
C10_DownRemovesWhatUpAdds ==
    (gen \in {"linux", "mac", "android"} /\ DOMAIN files # {}) =>
        LET up == PerRoute(UpName(gen))
            down == PerRoute(CHOOSE n \in DownNames(gen) : TRUE)
        IN  /\ Len(up) = Len(down)
            /\ Len(up) <= Len(results)
            /\ \A i \in DOMAIN up :
                   /\ up[i].net = results[i][1]
                   /\ up[i].net = down[i].net
                   /\ up[i].mask = down[i].mask
                   /\ up[i].mask = (IF gen = "android" THEN results[i][2] ELSE results[i][3])
            /\ (pc = "exit" /\ exit_code = 0) => Len(up) = Len(results)

C10_Witness ==
    /\ pc = "exit"
    /\ exit_code = 0
    /\ gen = "mac"
    /\ Len(results) = 2
    /\ PerRoute("ip-up")[2].cmd = "route add"
    /\ PerRoute("ip-down")[2].cmd = "route delete"
    /\ PerRoute("ip-down")[2].net = L_alloc256[4]
    /\ PerRoute("ip-down")[2].mask = 24

====
